---- MODULE Spec2Model ----
(***************************************************************************)
(* Model of internal/state/cluster.go: one Cluster with its affiliate map, *)
(* its subscription list, the two mutexes, and concurrent callers of       *)
(* WithAffiliate, DeleteAffiliate, List, Subscribe, unsubscribe and        *)
(* GarbageCollect.  The Affiliate and Subscription types live in files of  *)
(* the package that are not part of the source tree at hand; they are      *)
(* modelled from the design document (marked "spec" below).                *)
(***************************************************************************)
EXTENDS Integers, Sequences, FiniteSets, TLC

\* ------------------------------------------------------------------ bounds
\* Concurrent callers (goroutines), affiliate ids and endpoint addresses.
Procs == {"p1", "p2"}
Ids == {"a", "b"}
Endpoints == {"e1"}
\* Total number of calls started in one behaviour.
MaxOps == 3
\* Number of Subscribe calls in one behaviour.
MaxSubs == 2
\* Capacity of the channel a caller hands to Subscribe.
ChanCap == 1
\* The clock runs 0..MaxTime; an affiliate expires TTL after its last update.
MaxTime == 2
TTL == 1
\* Capacity of Subscription.errCh: make(chan error, 1).
ErrCap == 1

NoProc == "none"
Nil == "nil"
\* The nil *AffiliateExport: the Affiliate field of a deletion Notification.
NilAff == [id |-> Nil, endpoints |-> {}]
NoNote == [id |-> Nil, aff |-> NilAff, seq |-> 0]

SubIds == 1..MaxSubs

VARIABLES
    affiliates,       \* cluster.affiliates: id -> Affiliate (a function on the present ids)
    subscriptions,    \* cluster.subscriptions: sequence of subscription identities
    affiliatesMu,     \* holder of cluster.affiliatesMu, or NoProc
    subscriptionsMu,  \* holder of cluster.subscriptionsMu, or NoProc
    ch,               \* per subscription: contents of its delivery channel
    errCh,            \* per subscription: number of errors queued on errCh
    now,              \* the clock
    registered,       \* the Registry maps the cluster id to this Cluster
    pc,               \* per caller: position in the operation it runs
    call,             \* per caller: the operation and its arguments
    loc,              \* per caller: local variables of the operation
    nextSub,          \* identity the next Subscribe allocates
    snapshot,         \* per subscription: the snapshot Subscribe returned
    ops,              \* calls started so far
    log,              \* history: Notifications in the order they were built (commit order)
    subAt,            \* history: Len(log) when the subscription was registered
    attempts,         \* history: per subscription, the deliveries attempted to it
    serial            \* history: the mapping the calls yield when run one after the
                      \* other, in the order they took affiliatesMu

vars == <<affiliates, subscriptions, affiliatesMu, subscriptionsMu, ch, errCh, now,
          registered, pc, call, loc, nextSub, snapshot, ops, log, subAt, attempts, serial>>

\* ------------------------------------------------------- sequences helpers
Range(s) == {s[i] : i \in 1..Len(s)}

RECURSIVE SelectOk(_)
SelectOk(s) ==
    IF s = <<>> THEN <<>>
    ELSE IF Head(s).ok THEN <<Head(s).seq>> \o SelectOk(Tail(s))
    ELSE SelectOk(Tail(s))

SeqNos(s) == [i \in 1..Len(s) |-> s[i].seq]

StrictlyIncreasing(s) == \A i, j \in 1..Len(s) : i < j => s[i] < s[j]

IsSuffix(s, t) == Len(s) <= Len(t) /\ s = SubSeq(t, Len(t) - Len(s) + 1, Len(t))

\* ------------------------------------------------------ Affiliate (spec)
\* NewAffiliate(id): no endpoints, not changed.  The record keeps the time of
\* the last update for expiry.
NewAffiliate(t) == [endpoints |-> {}, lastUpdated |-> t, changed |-> FALSE]

\* affiliate.ClearChanged()
ClearChanged(a) == [a EXCEPT !.changed = FALSE]

\* The mutation function f: merge the endpoint set eps at time t.  An endpoint
\* already present is a no-op; any new endpoint marks the affiliate changed;
\* every mutation refreshes the time of the last update.
ApplyFn(a, eps, t) ==
    [endpoints   |-> a.endpoints \cup eps,
     lastUpdated |-> t,
     changed     |-> a.changed \/ (eps \ a.endpoints # {})]

\* affiliate.Export(): an immutable copy of the visible state.
Export(id, a) == [id |-> id, endpoints |-> a.endpoints]

\* affiliate.GarbageCollect(now): <<remove, changed>>.
AffiliateGarbageCollect(a, t) ==
    LET stale == t - a.lastUpdated > TTL
    IN  [remove |-> stale, changed |-> stale]

\* The exported view of the whole mapping (List's and Subscribe's loop).
ExportAll(m) == {Export(id, m[id]) : id \in DOMAIN m}

\* ------------------------------------------------------- map helpers
MapSet(m, id, a) == [i \in DOMAIN m \cup {id} |-> IF i = id THEN a ELSE m[i]]
MapDelete(m, id) == [i \in DOMAIN m \ {id} |-> m[i]]

\* ------------------------------------------------------------ initial state
IdleCall == [kind |-> "none", id |-> Nil, fn |-> {}, sub |-> 0, now |-> 0]
IdleLoc == [found |-> FALSE, before |-> NilAff, note |-> NoNote, subs |-> <<>>,
            idx |-> 0, todo |-> {}, listed |-> {}, empty |-> FALSE, sub |-> 0]

Init ==
    /\ affiliates = [i \in {} |-> NewAffiliate(0)]
    /\ subscriptions = <<>>
    /\ affiliatesMu = NoProc
    /\ subscriptionsMu = NoProc
    /\ ch = [s \in SubIds |-> <<>>]
    /\ errCh = [s \in SubIds |-> 0]
    /\ now = 0
    /\ registered = TRUE
    /\ pc = [p \in Procs |-> "idle"]
    /\ call = [p \in Procs |-> IdleCall]
    /\ loc = [p \in Procs |-> IdleLoc]
    /\ nextSub = 1
    /\ snapshot = [s \in SubIds |-> {}]
    /\ ops = 0
    /\ log = <<>>
    /\ subAt = [s \in SubIds |-> 0]
    /\ attempts = [s \in SubIds |-> <<>>]
    /\ serial = [i \in {} |-> NewAffiliate(0)]

\* ------------------------------------------------------------ calls
Shared == <<affiliates, subscriptions, affiliatesMu, subscriptionsMu, ch, errCh, now>>
History == <<log, subAt, attempts, serial>>

\* Registry.getOrCreate(id) hands out this Cluster while it is the entry of
\* its id (modelled from the specification; afterwards a caller gets another
\* instance).  A Subscription is closed through its own handle.
GetOrCreate(c) == c.kind = "unsubscribe" \/ registered

Start(p, c, first) ==
    /\ pc[p] = "idle"
    /\ GetOrCreate(c)
    /\ ops < MaxOps
    /\ ops' = ops + 1
    /\ call' = [call EXCEPT ![p] = c]
    /\ pc' = [pc EXCEPT ![p] = first]
    /\ UNCHANGED <<Shared, History, loc, nextSub, snapshot, registered>>

CallWithAffiliate(p, id, eps) ==
    Start(p, [IdleCall EXCEPT !.kind = "WithAffiliate", !.id = id, !.fn = eps, !.now = now],
          "lockAff")

CallDeleteAffiliate(p, id) ==
    Start(p, [IdleCall EXCEPT !.kind = "DeleteAffiliate", !.id = id], "lockAff")

CallList(p) ==
    Start(p, [IdleCall EXCEPT !.kind = "List"], "lockAff")

\* Mutant: Subscribe takes subscriptionsMu only.
SubscribeEntryNoAffiliatesMu == "sub_lock"

\* Subscribe starts with cluster.affiliatesMu.Lock().
SubscribeEntry == "lockAff"

CallSubscribe(p) ==
    /\ nextSub + Cardinality({q \in Procs : call[q].kind = "Subscribe"}) <= MaxSubs
    /\ Start(p, [IdleCall EXCEPT !.kind = "Subscribe"], SubscribeEntry)

CallGarbageCollect(p) ==
    Start(p, [IdleCall EXCEPT !.kind = "GarbageCollect", !.now = now], "lockAff")

\* Subscription.Close() -> cluster.unsubscribe(subscription), for any
\* subscription Subscribe has returned (also one already removed).  The
\* subscription reaches a caller only through Subscribe's return value, so
\* not while the Subscribe that created it is still before its return.
CallUnsubscribe(p, s) ==
    /\ s < nextSub
    /\ \A q \in Procs : ~(call[q].kind = "Subscribe" /\ loc[q].sub = s)
    /\ Start(p, [IdleCall EXCEPT !.kind = "unsubscribe", !.sub = s], "u_lock")

\* ------------------------------------------------------------ the mutexes
\* Mutant: Lock() that does not wait for the holder.
AffiliatesMuNeverWaits(p) == TRUE

\* cluster.affiliatesMu.Lock() returns once no one holds the mutex.
AffiliatesMuFree(p) == affiliatesMu = NoProc

\* cluster.subscriptionsMu.Lock() returns once no one holds the mutex.
SubscriptionsMuFree(p) == subscriptionsMu = NoProc

Mutating == {"WithAffiliate", "DeleteAffiliate", "GarbageCollect"}

\* What one mutating call does to the mapping when it runs alone.
SeqCall(m, c) ==
    CASE c.kind = "WithAffiliate" ->
             MapSet(m, c.id,
                    ApplyFn(IF c.id \in DOMAIN m THEN ClearChanged(m[c.id])
                            ELSE NewAffiliate(c.now), c.fn, c.now))
      [] c.kind = "DeleteAffiliate" ->
             [i \in DOMAIN m \ {c.id} |-> m[i]]
      [] OTHER ->
             [i \in {j \in DOMAIN m : ~(c.now - m[j].lastUpdated > TTL)} |-> m[i]]

FirstPc(kind) ==
    CASE kind = "WithAffiliate" -> "wa_lookup"
      [] kind = "DeleteAffiliate" -> "del"
      [] kind = "List" -> "list"
      [] kind = "Subscribe" -> "sub_lock"
      [] kind = "GarbageCollect" -> "gc_loop"
      [] OTHER -> "ret"

\* cluster.affiliatesMu.Lock(), the first statement of WithAffiliate,
\* DeleteAffiliate, List, Subscribe and GarbageCollect.  The range loops of
\* List and GarbageCollect start on the ids the mapping holds.
LockAffiliates(p) ==
    /\ pc[p] = "lockAff"
    /\ AffiliatesMuFree(p)
    /\ affiliatesMu' = p
    /\ pc' = [pc EXCEPT ![p] = FirstPc(call[p].kind)]
    /\ loc' = [loc EXCEPT ![p].todo =
                   IF call[p].kind \in {"GarbageCollect", "List"}
                   THEN DOMAIN affiliates ELSE {}]
    /\ serial' = IF call[p].kind \in Mutating THEN SeqCall(serial, call[p]) ELSE serial
    /\ UNCHANGED <<affiliates, subscriptions, subscriptionsMu, ch, errCh, now,
                   call, nextSub, snapshot, ops, log, subAt, attempts,
                   registered>>

\* The deferred cluster.affiliatesMu.Unlock() and the return.
\* GarbageCollect returns to the sweep, which acts on the result.
Return(p) ==
    /\ pc[p] = "ret"
    /\ affiliatesMu' = IF affiliatesMu = p THEN NoProc ELSE affiliatesMu
    /\ IF call[p].kind = "GarbageCollect"
       THEN /\ pc' = [pc EXCEPT ![p] = "sweep"]
            /\ UNCHANGED <<call, loc>>
       ELSE /\ pc' = [pc EXCEPT ![p] = "idle"]
            /\ call' = [call EXCEPT ![p] = IdleCall]
            /\ loc' = [loc EXCEPT ![p] = IdleLoc]
    /\ UNCHANGED <<affiliates, subscriptions, subscriptionsMu, ch, errCh, now,
                   nextSub, snapshot, ops, History, registered>>

\* ------------------------------------------------------------ notify
\* A Notification object; seq stands for the identity of the object built.
Notification(id, aff) == [id |-> id, aff |-> aff, seq |-> Len(log) + 1]

\* Position after the call of cluster.notify: the call site decides.
\* WithAffiliate and DeleteAffiliate return (the deferred unlock runs then);
\* GarbageCollect goes on with its range loop.
AfterNotify(p) == IF call[p].kind = "GarbageCollect" THEN "gc_loop" ELSE "ret"

\* cluster.subscriptionsMu.Lock() in notify.
NotifyLock(p) ==
    /\ pc[p] = "n_lock"
    /\ SubscriptionsMuFree(p)
    /\ subscriptionsMu' = p
    /\ pc' = [pc EXCEPT ![p] = "n_copy"]
    /\ UNCHANGED <<affiliates, subscriptions, affiliatesMu, ch, errCh, now,
                   call, loc, nextSub, snapshot, ops, History, registered>>

\* Mutant: notify does not unlock subscriptionsMu.
NotifyKeepsLock(p) == subscriptionsMu

\* Holder of subscriptionsMu once notify has copied the list.
NotifyUnlock(p) == IF subscriptionsMu = p THEN NoProc ELSE subscriptionsMu

\* subscriptions := append(nil, cluster.subscriptions...); Unlock().
NotifyCopy(p) ==
    /\ pc[p] = "n_copy"
    /\ subscriptionsMu' = NotifyUnlock(p)
    /\ loc' = [loc EXCEPT ![p].subs = subscriptions, ![p].idx = 1]
    /\ pc' = [pc EXCEPT ![p] = IF subscriptions = <<>> THEN AfterNotify(p) ELSE "n_deliver"]
    /\ UNCHANGED <<affiliates, subscriptions, affiliatesMu, ch, errCh, now,
                   call, nextSub, snapshot, ops, History, registered>>

\* Subscription.notify (spec): a non-blocking send on the channel; when the
\* channel cannot take it, a non-blocking send of an error on errCh.
SubscriptionAccepts(s) == Len(ch[s]) < ChanCap

\* The channels after subscription.notify(n) on subscription s.
SubscriptionNotifyCh(s, n) ==
    IF SubscriptionAccepts(s) THEN [ch EXCEPT ![s] = Append(@, n)] ELSE ch

\* The error channels after subscription.notify(n) on subscription s.
SubscriptionNotifyErrCh(s) ==
    IF ~SubscriptionAccepts(s) /\ errCh[s] < ErrCap
    THEN [errCh EXCEPT ![s] = @ + 1]
    ELSE errCh

\* Mutant: the loop over the copied list stops at the first subscription that
\* cannot take the notification.
NextSubscriptionStopsOnError(p, ok) ==
    IF ~ok \/ loc[p].idx = Len(loc[p].subs) THEN AfterNotify(p) ELSE "n_deliver"

\* for _, subscription := range subscriptions: the loop goes on with the next
\* subscription of the copy whatever subscription.notify did, and notify
\* returns after the last one.
NextSubscription(p, ok) ==
    IF loc[p].idx = Len(loc[p].subs) THEN AfterNotify(p) ELSE "n_deliver"

\* Mutant: a subscription that cannot take the notification is taken off the
\* list.
DeliveryDropsFailed(s, ok) ==
    IF ok THEN subscriptions
    ELSE SelectSeq(subscriptions, LAMBDA x : x # s)

\* cluster.subscriptions after subscription.notify: the loop body does not
\* touch the list.
DeliveryKeepsList(s, ok) == subscriptions

\* One iteration of notify's loop over the copied list.
NotifyDeliver(p) ==
    /\ pc[p] = "n_deliver"
    /\ LET s == loc[p].subs[loc[p].idx]
           n == loc[p].note
       IN  /\ ch' = SubscriptionNotifyCh(s, n)
           /\ errCh' = SubscriptionNotifyErrCh(s)
           /\ attempts' = [attempts EXCEPT ![s] =
                               Append(@, [seq |-> n.seq, ok |-> SubscriptionAccepts(s)])]
           /\ subscriptions' = DeliveryKeepsList(s, SubscriptionAccepts(s))
           /\ pc' = [pc EXCEPT ![p] = NextSubscription(p, SubscriptionAccepts(s))]
    /\ loc' = [loc EXCEPT ![p].idx = @ + 1]
    /\ UNCHANGED <<affiliates, affiliatesMu, subscriptionsMu, now,
                   call, nextSub, snapshot, ops, log, subAt, serial, registered>>

\* ------------------------------------------------------------ WithAffiliate
\* Mutant: the changed flag of the earlier mutation is not cleared.
ExistingAffiliateNotCleared(a) == a

\* The affiliate f receives when the id is present: affiliate.ClearChanged()
\* has run on it.
ExistingAffiliate(a) == ClearChanged(a)

\* if affiliate, ok := cluster.affiliates[id]; ok { affiliate.ClearChanged() ...
\* loc.before remembers the exported view f starts from (history only).
WithAffiliateLookup(p) ==
    /\ pc[p] = "wa_lookup"
    /\ LET id == call[p].id
           found == id \in DOMAIN affiliates
       IN  /\ affiliates' = IF found
                            THEN [affiliates EXCEPT ![id] = ExistingAffiliate(@)]
                            ELSE affiliates
           /\ loc' = [loc EXCEPT ![p].found = found,
                                 ![p].before = IF found THEN Export(id, affiliates[id]) ELSE NilAff]
    /\ pc' = [pc EXCEPT ![p] = "wa_apply"]
    /\ UNCHANGED <<subscriptions, affiliatesMu, subscriptionsMu, ch, errCh, now,
                   call, nextSub, snapshot, ops, History, registered>>

\* Mutant: a new affiliate is notified only when f marked it changed.
NewAffiliateNotifiesIfChanged(a) == a.changed

\* Whether WithAffiliate notifies for an affiliate it has just created: the
\* call of cluster.notify after the insert is unconditional.
NewAffiliateNotifies(a) == TRUE

\* Mutant: affiliatesMu is unlocked before cluster.notify is called.
UnlockBeforeNotify(p) == NoProc

\* The unlock of affiliatesMu is deferred: the mutex keeps its holder while the
\* body goes on to cluster.notify.
DeferredUnlock(p) == affiliatesMu

\* f(affiliate) and what follows it: on a present id the IsChanged() test and
\* the notification; on an absent id the insert and the notification.
WithAffiliateApply(p) ==
    /\ pc[p] = "wa_apply"
    /\ LET id == call[p].id
           here == id \in DOMAIN affiliates
           base == IF loc[p].found /\ here THEN affiliates[id] ELSE NewAffiliate(call[p].now)
           a1 == ApplyFn(base, call[p].fn, call[p].now)
           emit == IF loc[p].found THEN a1.changed ELSE NewAffiliateNotifies(a1)
           n == Notification(id, Export(id, a1))
       IN  /\ affiliates' = IF loc[p].found /\ ~here THEN affiliates
                            ELSE MapSet(affiliates, id, a1)
           /\ loc' = [loc EXCEPT ![p].note = IF emit THEN n ELSE NoNote]
           /\ log' = IF emit THEN Append(log, n) ELSE log
           /\ pc' = [pc EXCEPT ![p] = IF emit THEN "n_lock" ELSE "ret"]
    /\ affiliatesMu' = DeferredUnlock(p)
    /\ UNCHANGED <<subscriptions, subscriptionsMu, ch, errCh, now,
                   call, nextSub, snapshot, ops, subAt, attempts, serial,
                   registered>>

\* ------------------------------------------------------------ DeleteAffiliate
\* Mutant: the entry is not deleted.
DeleteEntryKept(m, id) == m

\* delete(cluster.affiliates, id)
DeleteEntry(m, id) == MapDelete(m, id)

\* if _, ok := cluster.affiliates[id]; ok { delete; notify(deletion) }
DeleteAffiliateBody(p) ==
    /\ pc[p] = "del"
    /\ LET id == call[p].id
           found == id \in DOMAIN affiliates
           n == Notification(id, NilAff)
       IN  /\ affiliates' = IF found THEN DeleteEntry(affiliates, id) ELSE affiliates
           /\ loc' = [loc EXCEPT ![p].found = found, ![p].note = IF found THEN n ELSE NoNote]
           /\ log' = IF found THEN Append(log, n) ELSE log
           /\ pc' = [pc EXCEPT ![p] = IF found THEN "n_lock" ELSE "ret"]
    /\ UNCHANGED <<subscriptions, affiliatesMu, subscriptionsMu, ch, errCh, now,
                   call, nextSub, snapshot, ops, subAt, attempts, serial,
                   registered>>

\* ------------------------------------------------------------ List
\* One iteration of the range loop: result = append(result, Export()) for an
\* entry of the mapping that the loop has not visited yet.
ListStep(p) ==
    /\ pc[p] = "list"
    /\ \E id \in loc[p].todo \cap DOMAIN affiliates :
           loc' = [loc EXCEPT ![p].listed = @ \cup {Export(id, affiliates[id])},
                              ![p].todo = @ \ {id}]
    /\ UNCHANGED <<Shared, pc, call, nextSub, snapshot, ops, History, registered>>

\* The range loop has visited every entry the mapping holds: return result.
ListReturn(p) ==
    /\ pc[p] = "list"
    /\ loc[p].todo \cap DOMAIN affiliates = {}
    /\ pc' = [pc EXCEPT ![p] = "ret"]
    /\ UNCHANGED <<Shared, call, loc, nextSub, snapshot, ops, History, registered>>

\* ------------------------------------------------------------ Subscribe
\* cluster.subscriptionsMu.Lock() in Subscribe, with affiliatesMu held.
SubscribeLock(p) ==
    /\ pc[p] = "sub_lock"
    /\ SubscriptionsMuFree(p)
    /\ subscriptionsMu' = p
    /\ pc' = [pc EXCEPT ![p] = "sub_body"]
    /\ UNCHANGED <<affiliates, subscriptions, affiliatesMu, ch, errCh, now,
                   call, loc, nextSub, snapshot, ops, History, registered>>

\* The snapshot loop, the new Subscription and the append; the deferred
\* unlock of subscriptionsMu runs first on return.
SubscribeBody(p) ==
    /\ pc[p] = "sub_body"
    /\ LET s == nextSub
       IN  /\ snapshot' = [snapshot EXCEPT ![s] = ExportAll(affiliates)]
           /\ subscriptions' = Append(subscriptions, s)
           /\ subAt' = [subAt EXCEPT ![s] = Len(log)]
           /\ loc' = [loc EXCEPT ![p].sub = s]
    /\ nextSub' = nextSub + 1
    /\ subscriptionsMu' = IF subscriptionsMu = p THEN NoProc ELSE subscriptionsMu
    /\ pc' = [pc EXCEPT ![p] = "ret"]
    /\ UNCHANGED <<affiliates, affiliatesMu, ch, errCh, now, call, ops, log, attempts, serial,
                   registered>>

\* ------------------------------------------------------------ unsubscribe
\* cluster.subscriptionsMu.Lock() in unsubscribe.
UnsubscribeLock(p) ==
    /\ pc[p] = "u_lock"
    /\ SubscriptionsMuFree(p)
    /\ subscriptionsMu' = p
    /\ pc' = [pc EXCEPT ![p] = "u_body"]
    /\ UNCHANGED <<affiliates, subscriptions, affiliatesMu, ch, errCh, now,
                   call, loc, nextSub, snapshot, ops, History, registered>>

\* Mutant: the list loses its last slot without the last entry being moved
\* into the slot of the subscription.
RemoveSubscriptionNoSwap(subs, s) ==
    IF \E i \in 1..Len(subs) : subs[i] = s
    THEN SubSeq(subs, 1, Len(subs) - 1)
    ELSE subs

\* Mutant: a subscription that is not found costs the list its last entry.
RemoveSubscriptionOrLast(subs, s) ==
    IF \E i \in 1..Len(subs) : subs[i] = s
    THEN LET i == CHOOSE k \in 1..Len(subs) :
                      subs[k] = s /\ \A j \in 1..(k - 1) : subs[j] # s
         IN  SubSeq([subs EXCEPT ![i] = subs[Len(subs)]], 1, Len(subs) - 1)
    ELSE SubSeq(subs, 1, Len(subs) - 1)

\* The index loop of unsubscribe: the first slot holding the subscription
\* takes the last entry and the list loses its last slot; no slot holding it
\* leaves the list as it is.
RemoveSubscription(subs, s) ==
    IF \E i \in 1..Len(subs) : subs[i] = s
    THEN LET i == CHOOSE k \in 1..Len(subs) :
                      subs[k] = s /\ \A j \in 1..(k - 1) : subs[j] # s
         IN  SubSeq([subs EXCEPT ![i] = subs[Len(subs)]], 1, Len(subs) - 1)
    ELSE subs

\* The body of unsubscribe, the deferred unlock and the return.
UnsubscribeBody(p) ==
    /\ pc[p] = "u_body"
    /\ subscriptions' = RemoveSubscription(subscriptions, call[p].sub)
    /\ subscriptionsMu' = IF subscriptionsMu = p THEN NoProc ELSE subscriptionsMu
    /\ pc' = [pc EXCEPT ![p] = "idle"]
    /\ call' = [call EXCEPT ![p] = IdleCall]
    /\ loc' = [loc EXCEPT ![p] = IdleLoc]
    /\ UNCHANGED <<affiliates, affiliatesMu, ch, errCh, now, nextSub, snapshot, ops, History,
                   registered>>

\* ------------------------------------------------------------ GarbageCollect
\* Mutant: the loop notifies for every affiliate it visits.
GarbageCollectNotifiesAll(r) == TRUE

\* Whether the loop notifies for the affiliate: if changed { notify(deletion) }.
GarbageCollectNotifies(r) == r.changed

\* One iteration of the range loop, on an id the loop has not produced yet
\* (Go's range yields the entries in no fixed order, and none that is gone).
GarbageCollectStep(p) ==
    /\ pc[p] = "gc_loop"
    /\ \E id \in loc[p].todo \cap DOMAIN affiliates :
          LET r == AffiliateGarbageCollect(affiliates[id], call[p].now)
              emit == GarbageCollectNotifies(r)
              n == Notification(id, NilAff)
          IN  /\ affiliates' = IF r.remove THEN MapDelete(affiliates, id) ELSE affiliates
              /\ loc' = [loc EXCEPT ![p].todo = @ \ {id},
                                    ![p].note = IF emit THEN n ELSE NoNote]
              /\ log' = IF emit THEN Append(log, n) ELSE log
              /\ pc' = [pc EXCEPT ![p] = IF emit THEN "n_lock" ELSE "gc_loop"]
    /\ UNCHANGED <<subscriptions, affiliatesMu, subscriptionsMu, ch, errCh, now,
                   call, nextSub, snapshot, ops, subAt, attempts, serial,
                   registered>>

\* Mutant: the result tells whether the sweep ended on a removal.
GarbageCollectReportsRemoval(p) == loc[p].note # NoNote

\* len(cluster.affiliates) == 0
GarbageCollectResult(p) == DOMAIN affiliates = {}

\* Mutant: the range loop may stop after a removal.
GarbageCollectLoopBreaks(p) ==
    loc[p].todo \cap DOMAIN affiliates = {} \/ loc[p].note # NoNote

\* The range loop ends when it has visited every entry of the mapping.
GarbageCollectLoopDone(p) == loc[p].todo \cap DOMAIN affiliates = {}

\* return len(cluster.affiliates) == 0
GarbageCollectReturn(p) ==
    /\ pc[p] = "gc_loop"
    /\ GarbageCollectLoopDone(p)
    /\ loc' = [loc EXCEPT ![p].empty = GarbageCollectResult(p)]
    /\ pc' = [pc EXCEPT ![p] = "ret"]
    /\ UNCHANGED <<Shared, call, nextSub, snapshot, ops, History, registered>>

\* ------------------------------------------------------------ Registry sweep
\* The periodic sweep (modelled from the specification): a cluster whose
\* GarbageCollect reported it empty is taken out of the Registry, under the
\* Registry's own lock.
SweepRemove(p) ==
    /\ pc[p] = "sweep"
    /\ registered' = IF loc[p].empty THEN FALSE ELSE registered
    /\ pc' = [pc EXCEPT ![p] = "idle"]
    /\ call' = [call EXCEPT ![p] = IdleCall]
    /\ loc' = [loc EXCEPT ![p] = IdleLoc]
    /\ UNCHANGED <<Shared, nextSub, snapshot, ops, History>>

\* ------------------------------------------------------------ environment
\* The watcher receives from its channel.
Consume(s) ==
    /\ ch[s] # <<>>
    /\ ch' = [ch EXCEPT ![s] = Tail(@)]
    /\ UNCHANGED <<affiliates, subscriptions, affiliatesMu, subscriptionsMu, errCh, now,
                   pc, call, loc, nextSub, snapshot, ops, History, registered>>

\* Time passes.
Tick ==
    /\ now < MaxTime
    /\ now' = now + 1
    /\ UNCHANGED <<affiliates, subscriptions, affiliatesMu, subscriptionsMu, ch, errCh,
                   pc, call, loc, nextSub, snapshot, ops, History, registered>>

\* ------------------------------------------------------------ specification
\* A step of an operation in progress.
ProcStep(p) ==
    \/ LockAffiliates(p)
    \/ WithAffiliateLookup(p)
    \/ WithAffiliateApply(p)
    \/ DeleteAffiliateBody(p)
    \/ ListStep(p)
    \/ ListReturn(p)
    \/ SubscribeLock(p)
    \/ SubscribeBody(p)
    \/ UnsubscribeLock(p)
    \/ UnsubscribeBody(p)
    \/ GarbageCollectStep(p)
    \/ GarbageCollectReturn(p)
    \/ SweepRemove(p)
    \/ NotifyLock(p)
    \/ NotifyCopy(p)
    \/ NotifyDeliver(p)
    \/ Return(p)

\* A caller starts an operation.
ProcCall(p) ==
    \/ \E id \in Ids, eps \in SUBSET Endpoints : CallWithAffiliate(p, id, eps)
    \/ \E id \in Ids : CallDeleteAffiliate(p, id)
    \/ CallList(p)
    \/ CallSubscribe(p)
    \/ \E s \in SubIds : CallUnsubscribe(p, s)
    \/ CallGarbageCollect(p)

Next ==
    \/ \E p \in Procs : ProcCall(p)
    \/ \E p \in Procs : ProcStep(p)
    \/ \E s \in SubIds : Consume(s)
    \/ Tick

Spec == Init /\ [][Next]_vars

\* Every goroutine that runs an operation keeps being scheduled: a step of an
\* operation in progress that stays possible is taken.  Starting an operation,
\* receiving from a channel and the passing of time are left to the
\* environment.
FairSpec == Spec /\ \A p \in Procs : WF_vars(ProcStep(p))

\* A cluster in service: Subscribe() has returned subscription 1 and
\* WithAffiliate("a", f) with an f that adds no endpoint has created "a"; the
\* watcher has not received the creation yet, so its channel is full.  ops
\* counts the calls started from here on.
WatchedInit ==
    LET n == [id |-> "a", aff |-> Export("a", NewAffiliate(0)), seq |-> 1]
    IN  /\ affiliates = [i \in {"a"} |-> NewAffiliate(0)]
        /\ subscriptions = <<1>>
        /\ affiliatesMu = NoProc
        /\ subscriptionsMu = NoProc
        /\ ch = [s \in SubIds |-> IF s = 1 THEN <<n>> ELSE <<>>]
        /\ errCh = [s \in SubIds |-> 0]
        /\ now = 0
        /\ registered = TRUE
        /\ pc = [p \in Procs |-> "idle"]
        /\ call = [p \in Procs |-> IdleCall]
        /\ loc = [p \in Procs |-> IdleLoc]
        /\ nextSub = 2
        /\ snapshot = [s \in SubIds |-> {}]
        /\ ops = 0
        /\ log = <<n>>
        /\ subAt = [s \in SubIds |-> 0]
        /\ attempts = [s \in SubIds |-> IF s = 1 THEN <<[seq |-> 1, ok |-> TRUE]>> ELSE <<>>]
        /\ serial = [i \in {"a"} |-> NewAffiliate(0)]

WatchedSpec == WatchedInit /\ [][Next]_vars

\* ------------------------------------------------------------ shared notions
\* The subscriptions Subscribe has created so far.
Created == 1..(nextSub - 1)

\* Positions inside cluster.notify.
InNotify == {"n_lock", "n_copy", "n_deliver"}

\* A watcher's view, as a set of exported affiliates, after one Notification.
ApplyNote(view, n) ==
    {e \in view : e.id # n.id} \cup (IF n.aff = NilAff THEN {} ELSE {n.aff})

\* The view after the Notifications of l, in order.
RECURSIVE Replay(_, _)
Replay(view, l) ==
    IF l = <<>> THEN view ELSE Replay(ApplyNote(view, Head(l)), Tail(l))

\* The number of attempts on subscription s that carry Notification k.
AttemptsOf(s, k) == Cardinality({i \in 1..Len(attempts[s]) : attempts[s][i].seq = k})

\* The dispatch of Notification k still has subscription s ahead of it.
DispatchPending(s, k) ==
    \E p \in Procs :
        /\ loc[p].note.seq = k
        /\ \/ pc[p] \in {"n_lock", "n_copy"}
           \/ /\ pc[p] = "n_deliver"
              /\ \E i \in loc[p].idx..Len(loc[p].subs) : loc[p].subs[i] = s

\* ------------------------------------------------------------ C1
\* C1: every committed change reaches a new subscriber exactly once: the
\* snapshot Subscribe returned holds exactly the changes committed before the
\* registration, no change the snapshot holds is also sent to the
\* subscription, no Notification is sent to it twice, and every change
\* committed after the registration is sent to it (or its dispatch is still
\* on its way) as long as the subscription stays registered.
C1_SnapshotThenExactlyOnce ==
    \A s \in Created :
        /\ snapshot[s] = Replay({}, SubSeq(log, 1, subAt[s]))
        /\ \A i \in 1..Len(attempts[s]) : attempts[s][i].seq > subAt[s]
        /\ \A k \in 1..Len(log) : AttemptsOf(s, k) <= 1
        /\ s \in Range(subscriptions) =>
               \A k \in (subAt[s] + 1)..Len(log) :
                   AttemptsOf(s, k) = 1 \/ DispatchPending(s, k)

\* A subscription whose snapshot holds an earlier change and which has been
\* sent a later one.
C1_Witness ==
    \E s \in Created :
        /\ subAt[s] >= 1
        /\ snapshot[s] # {}
        /\ attempts[s] # <<>>

\* ------------------------------------------------------------ C2
\* C2: the Notifications sent to one subscriber come in commit order: the
\* attempts on a subscription carry strictly increasing commit numbers, and
\* its channel holds, in that order, the latest accepted ones.
C2_DeliveryInCommitOrder ==
    \A s \in SubIds :
        /\ StrictlyIncreasing(SeqNos(attempts[s]))
        /\ IsSuffix(SeqNos(ch[s]), SelectOk(attempts[s]))

\* Two Notifications were sent to one subscription, the first accepted and
\* received, the second accepted and still in the channel.
C2_Witness ==
    \E s \in Created :
        /\ Len(attempts[s]) >= 2
        /\ attempts[s][1].ok /\ attempts[s][2].ok
        /\ ch[s] # <<>>

\* ------------------------------------------------------------ C3
\* The caller is inside the part of its call that changes the mapping.
Unsettled(p) ==
    \/ pc[p] \in {"wa_lookup", "wa_apply", "del", "gc_loop"}
    \/ call[p].kind = "GarbageCollect" /\ pc[p] \in InNotify

\* C3: concurrent calls are serializable: whenever no caller is in the middle
\* of its mutation, the mapping is the one that the calls made so far yield
\* when run one after the other, in the order they took the mutex.
C3_Serializable ==
    (\A p \in Procs : ~Unsettled(p)) => affiliates = serial

\* A WithAffiliate that added an endpoint to an affiliate an earlier call
\* created is about to return, while another WithAffiliate on the same id
\* waits for the mutex.
C3_Witness ==
    /\ \A p \in Procs : ~Unsettled(p)
    /\ \E p, q \in Procs :
           /\ pc[p] = "ret" /\ call[p].kind = "WithAffiliate" /\ loc[p].found
           /\ loc[p].note # NoNote
           /\ pc[q] = "lockAff" /\ call[q].kind = "WithAffiliate"
           /\ call[q].id = call[p].id

\* ------------------------------------------------------------ C4
\* C4: WithAffiliate on an absent id inserts the affiliate and emits exactly
\* one Notification with its export, attempted once on every subscription of
\* the list notify copied, whether or not f marked the affiliate changed.
C4_NewAffiliateAlwaysNotified ==
    \A p \in Procs :
        (call[p].kind = "WithAffiliate" /\ pc[p] = "ret" /\ ~loc[p].found) =>
            /\ call[p].id \in DOMAIN affiliates
            /\ loc[p].note # NoNote
            /\ loc[p].note.seq = Len(log)
            /\ log[Len(log)] = loc[p].note
            /\ loc[p].note.aff = Export(call[p].id, affiliates[call[p].id])
            /\ \A s \in Range(loc[p].subs) : AttemptsOf(s, loc[p].note.seq) = 1

\* A call that created an affiliate with an f that adds nothing has notified
\* a subscription.
C4_Witness ==
    \E p \in Procs :
        /\ call[p].kind = "WithAffiliate" /\ pc[p] = "ret" /\ ~loc[p].found
        /\ call[p].fn = {}
        /\ loc[p].subs # <<>>

\* ------------------------------------------------------------ C5
\* C5: WithAffiliate on a present id emits a Notification exactly when this
\* call's f changed the exported view, and the Notification carries the new
\* export.
C5_ExistingNotifiedIffChanged ==
    \A p \in Procs :
        (call[p].kind = "WithAffiliate" /\ pc[p] \in InNotify \cup {"ret"} /\ loc[p].found) =>
            /\ call[p].id \in DOMAIN affiliates
            /\ (loc[p].note # NoNote) <=>
                   (Export(call[p].id, affiliates[call[p].id]) # loc[p].before)
            /\ loc[p].note # NoNote =>
                   loc[p].note.aff = Export(call[p].id, affiliates[call[p].id])

\* A call re-added the endpoint its affiliate already held, with a
\* subscription registered, and emitted nothing.
C5_Witness ==
    \E p \in Procs :
        /\ call[p].kind = "WithAffiliate" /\ pc[p] = "ret" /\ loc[p].found
        /\ call[p].fn # {}
        /\ call[p].fn \subseteq loc[p].before.endpoints
        /\ loc[p].note = NoNote
        /\ subscriptions # <<>>

\* ------------------------------------------------------------ C6
\* C6: DeleteAffiliate on an absent id changes nothing and emits nothing; on a
\* present id it removes the entry and emits one deletion Notification, which
\* is attempted once on every subscription of the copied list, and nothing
\* else is emitted or changed until the call returns.  An id that is not in
\* the mapping is in no List result, and only WithAffiliate on that id brings
\* it back.
C6_DeleteAffiliate ==
    [][/\ \A p \in Procs :
            /\ (pc[p] = "del" /\ pc'[p] # "del") =>
                   IF call[p].id \in DOMAIN affiliates
                   THEN /\ affiliates' = [i \in DOMAIN affiliates \ {call[p].id} |-> affiliates[i]]
                        /\ log' = Append(log, [id |-> call[p].id, aff |-> NilAff,
                                               seq |-> Len(log) + 1])
                        /\ loc'[p].note = log'[Len(log')]
                        /\ pc'[p] = "n_lock"
                   ELSE /\ affiliates' = affiliates
                        /\ log' = log
                        /\ attempts' = attempts
                        /\ pc'[p] = "ret"
            /\ (call[p].kind = "DeleteAffiliate" /\ pc[p] \in InNotify \cup {"ret"}) =>
                   /\ log' = log
                   /\ affiliates' = affiliates
            /\ (call[p].kind = "DeleteAffiliate" /\ pc[p] \in InNotify /\ pc'[p] = "ret") =>
                   \A s \in Range(loc'[p].subs) :
                       Cardinality({i \in 1..Len(attempts'[s]) :
                                       attempts'[s][i].seq = loc'[p].note.seq}) = 1
            /\ (pc[p] = "list" /\ pc'[p] = "ret") =>
                   {e.id : e \in loc'[p].listed} = DOMAIN affiliates
       /\ \A id \in Ids :
            (id \notin DOMAIN affiliates /\ id \in DOMAIN affiliates') =>
                \E p \in Procs : /\ call[p].kind = "WithAffiliate"
                                 /\ call[p].id = id
                                 /\ pc[p] = "wa_apply"]_vars

\* A DeleteAffiliate that found its id has sent the deletion to a subscription
\* and is about to return.
C6_Witness ==
    \E p \in Procs :
        /\ call[p].kind = "DeleteAffiliate" /\ pc[p] = "ret" /\ loc[p].found
        /\ loc[p].note.aff = NilAff
        /\ call[p].id \notin DOMAIN affiliates
        /\ loc[p].subs # <<>>

\* ------------------------------------------------------------ C7
\* The affiliate's last update is older than the expiry threshold at time t.
Stale(a, t) == t - a.lastUpdated > TTL

\* The statement below holds of the sweep only as long as
\* affiliate.GarbageCollect reports changed exactly when it reports remove:
\* the loop deletes on remove and notifies on changed, separately, and the
\* source of affiliate.GarbageCollect is not available to settle whether the
\* two results can differ.
\* C7: each iteration of GarbageCollect removes its affiliate and emits one
\* deletion Notification when the affiliate is stale, and changes and emits
\* nothing when it is not; nothing else changes the mapping or emits while
\* the sweep runs; the sweep returns with no stale affiliate left.
C7_GarbageCollect ==
    [][\A p \in Procs :
          /\ (pc[p] = "gc_loop" /\ pc'[p] # "ret" /\ loc'[p] # loc[p]) =>
                 \E id \in loc[p].todo :
                     /\ loc'[p].todo = loc[p].todo \ {id}
                     /\ id \in DOMAIN affiliates
                     /\ IF Stale(affiliates[id], call[p].now)
                        THEN /\ affiliates' =
                                    [i \in DOMAIN affiliates \ {id} |-> affiliates[i]]
                             /\ log' = Append(log, [id |-> id, aff |-> NilAff,
                                                    seq |-> Len(log) + 1])
                             /\ pc'[p] = "n_lock"
                        ELSE /\ affiliates' = affiliates
                             /\ log' = log
                             /\ pc'[p] = "gc_loop"
          /\ (call[p].kind = "GarbageCollect" /\ pc[p] \in InNotify \cup {"ret"}) =>
                 /\ affiliates' = affiliates
                 /\ log' = log
          /\ (pc[p] = "gc_loop" /\ pc'[p] = "ret") =>
                 /\ affiliates' = affiliates
                 /\ log' = log
                 /\ loc[p].todo = {}
                 /\ \A id \in DOMAIN affiliates : ~Stale(affiliates[id], call[p].now)]_vars

\* A sweep has removed a stale affiliate, emitted its deletion, and left a
\* fresh affiliate in the mapping.
C7_Witness ==
    \E p \in Procs :
        /\ call[p].kind = "GarbageCollect" /\ pc[p] = "ret"
        /\ loc[p].note.aff = NilAff /\ loc[p].note.seq = Len(log)
        /\ loc[p].note.id \notin DOMAIN affiliates
        /\ DOMAIN affiliates # {}

\* ------------------------------------------------------------ C8
\* C8: a writer always returns, whatever the watchers do: every
\* WithAffiliate, DeleteAffiliate and GarbageCollect in progress reaches its
\* return; and an attempt on a full channel leaves the channel as it is and
\* leaves an error queued on that subscription's error channel.
C8_WritersNeverBlocked ==
    /\ \A p \in Procs : (call[p].kind \in Mutating) ~> (pc[p] = "idle")
    /\ [][\A s \in SubIds :
             (Len(attempts'[s]) > Len(attempts[s]) /\ Len(ch[s]) >= ChanCap) =>
                 /\ ch'[s] = ch[s]
                 /\ errCh'[s] = ErrCap
                 /\ ~attempts'[s][Len(attempts'[s])].ok]_vars

\* Every caller has returned, after an attempt on a full channel was dropped
\* and reported; the channel is still full.
C8_Witness ==
    /\ \A p \in Procs : pc[p] = "idle"
    /\ \E s \in Created :
           /\ Len(ch[s]) = ChanCap
           /\ errCh[s] = ErrCap
           /\ attempts[s] # <<>>
           /\ ~attempts[s][Len(attempts[s])].ok

\* ------------------------------------------------------------ C9
\* C9: once unsubscribe has returned for a subscription (it was created and
\* is no longer in the list), nothing more is put on its channel.
C9_NoDeliveryAfterUnsubscribe ==
    [][\A s \in Created :
          s \notin Range(subscriptions) => Len(ch'[s]) <= Len(ch[s])]_vars

\* ------------------------------------------------------------ C10
\* C10: unsubscribe for a subscription that is not in the list leaves the
\* list as it is and returns; and after any unsubscribe the list is one that
\* removing the same subscription again does not change.
C10_UnsubscribeIdempotent ==
    [][\A p \in Procs :
          (pc[p] = "u_body" /\ pc'[p] # "u_body") =>
              /\ pc'[p] = "idle"
              /\ call[p].sub \notin Range(subscriptions) => subscriptions' = subscriptions
              /\ call[p].sub \notin Range(subscriptions')
              /\ RemoveSubscription(subscriptions', call[p].sub) = subscriptions']_vars

\* A second unsubscribe for a subscription already removed is about to run.
C10_Witness ==
    \E p \in Procs :
        /\ pc[p] = "u_body"
        /\ call[p].sub \in Created
        /\ call[p].sub \notin Range(subscriptions)

\* ------------------------------------------------------------ C11
\* C11: the result a List call returns is the set of exported affiliates the
\* mapping holds at one instant between the call and the return: while the
\* loop runs, nothing it has collected differs from the mapping, and at the
\* return the result is exactly the export of the mapping, which at that
\* instant is the mapping the committed mutations produce one after the other
\* (no mutation is half applied, none is partly reflected).
C11_ListIsAtomicSnapshot ==
    \A p \in Procs :
        (call[p].kind = "List" /\ pc[p] \in {"list", "ret"}) =>
            /\ loc[p].listed \subseteq ExportAll(affiliates)
            /\ \A q \in Procs \ {p} : pc[q] \notin {"wa_lookup", "wa_apply", "del", "gc_loop"}
            /\ pc[p] = "ret" =>
                   /\ loc[p].listed = ExportAll(affiliates)
                   /\ affiliates = serial

\* A List is about to return an affiliate while a writer that was called in
\* the meantime waits for the lock.
C11_Witness ==
    \E p \in Procs, q \in Procs :
        /\ call[p].kind = "List"
        /\ pc[p] = "ret"
        /\ loc[p].listed # {}
        /\ call[q].kind \in {"WithAffiliate", "DeleteAffiliate"}
        /\ pc[q] = "lockAff"

\* ------------------------------------------------------------ C12
\* The attempt of the dispatch in progress at p on subscription s, if made.
AttemptIn(p, s) ==
    {i \in 1..Len(attempts[s]) : attempts[s][i].seq = loc[p].note.seq}

\* C12: a delivery that fails is isolated.  The step of notify's loop on a
\* subscription that cannot take the notification leaves the mapping and the
\* committed notifications as they are, signals the error channel of that
\* subscription and no other, touches no other subscription's channel, and
\* the loop goes on; a later subscription of the copy with room receives the
\* notification; and when notify returns every subscription of its copy has
\* been attempted once.
C12_DeliveryFailureIsolated ==
    [][\A p \in Procs :
          (pc[p] = "n_deliver" /\ loc'[p].idx = loc[p].idx + 1) =>
              LET s == loc[p].subs[loc[p].idx]
                  failed == Len(ch[s]) >= ChanCap
              IN  /\ affiliates' = affiliates /\ log' = log /\ serial' = serial
                  /\ loc'[p].subs = loc[p].subs
                  /\ \A u \in SubIds \ {s} : ch'[u] = ch[u] /\ errCh'[u] = errCh[u]
                  /\ failed =>
                        /\ ch'[s] = ch[s]
                        /\ errCh'[s] = IF errCh[s] < ErrCap THEN errCh[s] + 1 ELSE errCh[s]
                        /\ attempts'[s] = Append(attempts[s], [seq |-> loc[p].note.seq, ok |-> FALSE])
                  /\ ~failed =>
                        /\ ch'[s] = Append(ch[s], loc[p].note)
                        /\ errCh'[s] = errCh[s]
                  /\ loc[p].idx < Len(loc[p].subs) => pc'[p] = "n_deliver"
                  /\ pc'[p] # "n_deliver" =>
                        \A u \in Range(loc[p].subs) :
                            Cardinality({i \in 1..Len(attempts'[u]) :
                                            attempts'[u][i].seq = loc[p].note.seq}) = 1
      ]_vars

\* A dispatch failed on subscription 1, whose channel was full, and went on to
\* deliver to subscription 2: only the first error channel is signaled and
\* the mutation is in the mapping.
C12_Witness ==
    \E p \in Procs :
        /\ call[p].kind = "WithAffiliate"
        /\ pc[p] = "ret"
        /\ loc[p].subs = <<1, 2>>
        /\ \E i \in AttemptIn(p, 1) : ~attempts[1][i].ok
        /\ \E i \in AttemptIn(p, 2) : attempts[2][i].ok
        /\ errCh[1] = 1 /\ errCh[2] = 0
        /\ ch[2] = <<loc[p].note>>
        /\ loc[p].note.aff = Export(call[p].id, affiliates[call[p].id])

\* ------------------------------------------------------------ C13
\* C13: a sweep that reclaims the empty cluster, racing with getOrCreate and a
\* write, never strands a completed write: once the Registry no longer maps
\* the id to this Cluster and no write on it is in progress, this Cluster
\* holds no affiliate.
C13_NoStrandedWrite ==
    (~registered /\ \A p \in Procs : call[p].kind \notin Mutating)
        => DOMAIN affiliates = {}

\* ------------------------------------------------------------ C14
\* Positions of a call that are reached only with affiliatesMu held.
UnderAffiliatesMu ==
    {"wa_lookup", "wa_apply", "del", "list", "sub_lock", "sub_body", "gc_loop",
     "n_lock", "n_copy", "n_deliver"}

\* C14 as stated: the affiliate lock is never held while a Notification is
\* being delivered to the subscriptions.
C14_AffiliatesMuFreeDuringDelivery ==
    \A p \in Procs : pc[p] = "n_deliver" => affiliatesMu # p

\* C14, amended: the writer holds the affiliate lock for the whole of notify,
\* delivery included (the unlock is deferred to the return of WithAffiliate,
\* DeleteAffiliate and GarbageCollect), so no other caller is inside an
\* affiliate operation while a delivery is in progress; the subscription-list
\* lock is the one released before the notification is delivered.
C14_DeliveryUnderAffiliatesMu ==
    \A p \in Procs :
        pc[p] \in InNotify =>
            /\ affiliatesMu = p
            /\ pc[p] = "n_deliver" => subscriptionsMu # p
            /\ \A q \in Procs \ {p} : pc[q] \notin UnderAffiliatesMu

\* A writer is delivering to a subscription while another affiliate operation,
\* called in the meantime, waits for the affiliate lock.
C14_Witness ==
    \E p \in Procs, q \in Procs :
        /\ pc[p] = "n_deliver"
        /\ call[p].kind \in {"WithAffiliate", "DeleteAffiliate", "GarbageCollect"}
        /\ affiliatesMu = p
        /\ pc[q] = "lockAff"
        /\ call[q].kind \in {"List", "WithAffiliate", "Subscribe"}

\* ------------------------------------------------------------ C15
\* Positions where a caller waits for a mutex.
WaitsAffiliatesMu(p) == pc[p] = "lockAff"
WaitsSubscriptionsMu(p) == pc[p] \in {"sub_lock", "n_lock", "u_lock"}

\* C15: the two locks never deadlock.  A caller that holds both took the
\* affiliate lock first (it holds both only in Subscribe's body and in
\* notify's copy, and Subscribe's body holds both); no caller takes or waits
\* for the affiliate lock while it holds the subscription lock; and every
\* caller that waits for a lock gets past the wait.
C15_NoDeadlock ==
    /\ [](\A p \in Procs :
            /\ (affiliatesMu = p /\ subscriptionsMu = p) => pc[p] \in {"sub_body", "n_copy"}
            /\ pc[p] = "sub_body" => (affiliatesMu = p /\ subscriptionsMu = p)
            /\ subscriptionsMu = p => ~WaitsAffiliatesMu(p))
    /\ [][\A p \in Procs :
            /\ (affiliatesMu # p /\ affiliatesMu' = p) => subscriptionsMu # p
            /\ (subscriptionsMu # p /\ subscriptionsMu' = p /\ affiliatesMu' = p)
                   => affiliatesMu = p]_vars
    /\ \A p \in Procs :
            /\ WaitsAffiliatesMu(p) ~> ~WaitsAffiliatesMu(p)
            /\ WaitsSubscriptionsMu(p) ~> ~WaitsSubscriptionsMu(p)

\* A Subscribe holds both locks while one caller waits for the affiliate lock.
C15_Witness ==
    \E p \in Procs, q \in Procs :
        /\ pc[p] = "sub_body"
        /\ affiliatesMu = p /\ subscriptionsMu = p
        /\ WaitsAffiliatesMu(q)

\* ------------------------------------------------------------ C16
\* C16: notify leaves the subscription list as it is, also when a delivery
\* fails; a subscription leaves the list only in the body of unsubscribe
\* called for it; and a subscription whose delivery failed is attempted again
\* on the next notification (a dispatch that copies the list while it is
\* registered attempts it).
C16_OnlyUnsubscribeRemoves ==
    [][/\ \A p \in Procs :
            (pc[p] \in InNotify /\ (pc'[p] # pc[p] \/ loc'[p] # loc[p]))
                => subscriptions' = subscriptions
       /\ \A s \in Range(subscriptions) \ Range(subscriptions') :
            \E p \in Procs : /\ pc[p] = "u_body"
                             /\ call[p].sub = s
                             /\ pc'[p] = "idle"
       /\ \A p \in Procs :
            (pc[p] = "n_copy" /\ pc'[p] # "n_copy") =>
                \A s \in Range(subscriptions) :
                    (attempts[s] # <<>> /\ ~attempts[s][Len(attempts[s])].ok)
                        => s \in Range(loc'[p].subs)
      ]_vars

\* A delivery to subscription 1 failed, the subscription stayed on the list,
\* and the next notification was attempted on it again.
C16_Witness ==
    \E i \in 1..Len(attempts[1]) :
        /\ ~attempts[1][i].ok
        /\ i < Len(attempts[1])
        /\ attempts[1][i + 1].seq > attempts[1][i].seq
        /\ 1 \in Range(subscriptions)
        /\ \A p \in Procs : pc[p] = "idle"

\* ------------------------------------------------------------ C17
\* C17: GarbageCollect returns true exactly when the mapping is empty at the
\* end of its sweep (empty from the start, or every affiliate expired), and
\* false when an affiliate is left.
C17_GarbageCollectResult ==
    \A p \in Procs :
        (call[p].kind = "GarbageCollect" /\ pc[p] = "ret") =>
            /\ loc[p].empty = (DOMAIN affiliates = {})
            /\ loc[p].empty = (DOMAIN serial = {})

\* A sweep that removed the last affiliate is about to return true.
C17_Witness ==
    \E p \in Procs :
        /\ call[p].kind = "GarbageCollect"
        /\ pc[p] = "ret"
        /\ loc[p].empty
        /\ log # <<>> /\ log[Len(log)].aff = NilAff

\* ------------------------------------------------------------ C18
\* C18: the sweep is idempotent.  When GarbageCollect(now) is about to return,
\* a second GarbageCollect with the same now on the mapping it leaves would
\* remove no affiliate and notify for none, and would return the same result.
C18_SweepIdempotent ==
    \A p \in Procs :
        (call[p].kind = "GarbageCollect" /\ pc[p] = "ret") =>
            /\ \A id \in DOMAIN affiliates :
                   LET r == AffiliateGarbageCollect(affiliates[id], call[p].now)
                   IN  ~r.remove /\ ~GarbageCollectNotifies(r)
            /\ SeqCall(affiliates, call[p]) = affiliates
            /\ GarbageCollectResult(p) = loc[p].empty

\* A sweep has removed an expired affiliate, has notified the deletion, and
\* leaves a live one.
C18_Witness ==
    \E p \in Procs :
        /\ call[p].kind = "GarbageCollect"
        /\ pc[p] = "ret"
        /\ DOMAIN affiliates # {}
        /\ log # <<>> /\ log[Len(log)].aff = NilAff
        /\ log[Len(log)].id \notin DOMAIN affiliates

\* ------------------------------------------------------------ C19
\* The Notifications delivered to subscription s, in the order of delivery.
Delivered(s) ==
    LET k == SelectOk(attempts[s]) IN [i \in 1..Len(k) |-> log[k[i]]]

\* The view a watcher builds: the snapshot, then every delivered Notification
\* applied in order (a nil affiliate deletes the id, any other replaces it).
WatcherView(s) == Replay(snapshot[s], Delivered(s))

\* C19: whenever no operation is in progress and no delivery to a registered
\* subscription was dropped, the view its watcher has built from the snapshot
\* and the Notifications delivered to it is the exported mapping of the
\* cluster.
C19_WatcherViewTracksCluster ==
    \A s \in Range(subscriptions) :
        ((\A p \in Procs : pc[p] = "idle")
            /\ \A i \in 1..Len(attempts[s]) : attempts[s][i].ok)
        => WatcherView(s) = ExportAll(affiliates)

\* A watcher has been sent a creation and a deletion, none dropped, and no
\* operation is in progress.
C19_Witness ==
    \E s \in Range(subscriptions) :
        /\ \A p \in Procs : pc[p] = "idle"
        /\ Len(attempts[s]) = 2
        /\ \A i \in 1..Len(attempts[s]) : attempts[s][i].ok
        /\ Delivered(s)[1].aff # NilAff
        /\ Delivered(s)[2].aff = NilAff

\* ------------------------------------------------------------ C20
\* No subscription is on the list twice.
NoDuplicates(subs) == \A i, j \in 1..Len(subs) : subs[i] = subs[j] => i = j

\* C20: unsubscribe(s) removes s and nothing else.  The list never holds a
\* subscription twice and holds only subscriptions Subscribe has created;
\* the body of unsubscribe(s) takes exactly s off the list, whatever slot it
\* is in, keeps every other subscription, and leaves the affiliate mapping,
\* the channels and the notifications as they are; Subscribe adds exactly
\* the new subscription.
C20_UnsubscribeRemovesOnlyItsOwn ==
    /\ [](NoDuplicates(subscriptions) /\ Range(subscriptions) \subseteq Created)
    /\ [][\A p \in Procs :
            /\ (pc[p] = "u_body" /\ pc'[p] = "idle") =>
                   /\ Range(subscriptions') = Range(subscriptions) \ {call[p].sub}
                   /\ Len(subscriptions') = Cardinality(Range(subscriptions'))
                   /\ affiliates' = affiliates
                   /\ ch' = ch /\ errCh' = errCh /\ log' = log
            /\ (pc[p] = "sub_body" /\ pc'[p] = "ret") =>
                   /\ subscriptions' = Append(subscriptions, loc'[p].sub)
                   /\ loc'[p].sub \notin Range(subscriptions)]_vars

\* Of two subscriptions the first has been unsubscribed: the list holds the
\* second, once.
C20_Witness ==
    /\ nextSub = 3
    /\ subscriptions = <<2>>
    /\ \A p \in Procs : pc[p] = "idle"

====
